---- MODULE Spec2Model ----
(***************************************************************************)
(* Voice command parsing of the product catalog (VoiceProductInput.tsx):   *)
(* the three regular expressions of parseProductFromText, the destructuring*)
(* of their capture groups and the keyword lookup of detectCategory.       *)
(*                                                                         *)
(* A string is a sequence of one-character strings.  The character         *)
(* "RUPEE" stands for the rupee sign U+20B9.  A regular expression is a    *)
(* syntax tree, and matching is the backtracking search of ECMAScript:     *)
(* M yields every way a tree can match at a position, in the order in which*)
(* the backtracking matcher tries them, so its head is the match found.    *)
(***************************************************************************)
EXTENDS Integers, Sequences, FiniteSets, TLC

VARIABLES
  \* parseProductFromText: the utterance, the parts it was built from, the
  \* value returned and the number of patterns tried
  built, text, result, tried, pc,
  \* detectCategory: the name asked about and the category returned
  productName, category, cpc,
  \* VoiceProductInput: the props and state it is rendered with, the
  \* SpeechRecognition instance held in recognitionRef, the session of every
  \* instance, the last toast, the products handed to onProductDetected and
  \* the last event handled
  isSupported, isListening, recognitionRef, sessions, toast, detected, handled,
  \* CatalogManager: the products state, the 'catalog_products' item of
  \* localStorage, how far the mount has got, the list the load effect has
  \* set and the next render will show, the products state at the last
  \* unmount, whether no handler has run since, and the clock
  products, storage, phase, pending, before, fresh, now,
  \* App (app.js): the state of the component (listening is its isListening
  \* state), the recognition session that has been started, the last event
  \* handled, and the processInput calls that have not finished
  db, userId, isAuthReady, speechLanguage, recognition, session, listening,
  loading, message, appHandled, calls,
  \* the chat of the App of src/unnamed/part_002: the text typed, the state
  \* of the component and the getAiResponse calls that have not finished
  chatInput, chatLoading, chatMessage, chatHistory, campaignOutput, chatCalls,
  \* the Node backend: the products collection, the temporary files of the
  \* uploads, the requests that have not been answered, and the last step
  \* taken with its answer
  store, files, requests, acted,
  \* server.js: global.pythonBackend, the backend processes alive, whether
  \* the server runs, and the answers it has sent
  pythonBackend, alive, running, served

parserVars == <<built, text, result, tried, pc>>

categoryVars == <<productName, category, cpc>>

voiceVars ==
  <<isSupported, isListening, recognitionRef, sessions, toast, detected,
    handled>>

catalogVars == <<products, storage, phase, pending, before, fresh, now>>

appVars ==
  <<db, userId, isAuthReady, speechLanguage, recognition, session, listening,
    loading, message, appHandled, calls>>

chatVars ==
  <<chatInput, chatLoading, chatMessage, chatHistory, campaignOutput,
    chatCalls>>

backendVars == <<store, files, requests, acted>>

serverVars == <<pythonBackend, alive, running, served>>

restVars == <<chatVars, backendVars, serverVars>>

vars ==
  <<parserVars, categoryVars, voiceVars, catalogVars, appVars, restVars>>

\* the parts of the state a specification does not use stay as they are here
ParserIdle ==
  /\ built = <<>> /\ text = <<>> /\ result = <<>> /\ tried = 0 /\ pc = "idle"

CategoryIdle == productName = <<>> /\ category = "" /\ cpc = "idle"

VoiceIdle ==
  /\ isSupported = FALSE /\ isListening = FALSE /\ recognitionRef = 0
  /\ sessions = <<>> /\ toast = <<>> /\ detected = <<>> /\ handled = <<>>

CatalogIdle ==
  /\ products = <<>> /\ storage = <<>> /\ phase = "idle" /\ pending = <<>>
  /\ before = <<>> /\ fresh = FALSE /\ now = 0

AppIdle ==
  /\ db = FALSE /\ userId = FALSE /\ isAuthReady = FALSE
  /\ speechLanguage = "" /\ recognition = <<>> /\ session = <<>>
  /\ listening = FALSE /\ loading = FALSE /\ message = ""
  /\ appHandled = <<>> /\ calls = <<>>

ChatIdle ==
  /\ chatInput = <<>> /\ chatLoading = FALSE /\ chatMessage = ""
  /\ chatHistory = <<>> /\ campaignOutput = "" /\ chatCalls = <<>>

BackendIdle == store = <<>> /\ files = {} /\ requests = <<>> /\ acted = <<>>

ServerIdle ==
  pythonBackend = 0 /\ alive = {} /\ running = FALSE /\ served = <<>>

RestIdle == ChatIdle /\ BackendIdle /\ ServerIdle

----------------------------------------------------------------------------
(* Characters and the String methods the parser uses *)

Digit == {"0", "1", "2", "3", "4", "5", "6", "7", "8", "9"}

LineTerminator == {"\n", "\r"}

WhiteSpace == {" ", "\t", "\f"} \cup LineTerminator

UpperCase == <<"A", "B", "C", "D", "E", "F", "G", "H", "I", "J", "K", "L", "M", "N", "O", "P", "Q", "R", "S", "T", "U", "V", "W", "X", "Y", "Z">>

LowerCase == <<"a", "b", "c", "d", "e", "f", "g", "h", "i", "j", "k", "l", "m", "n", "o", "p", "q", "r", "s", "t", "u", "v", "w", "x", "y", "z">>

\* the lower-case letter of each upper-case letter
LowerOf ==
  [c \in {UpperCase[i] : i \in 1..Len(UpperCase)} |->
     LowerCase[CHOOSE i \in 1..Len(UpperCase) : UpperCase[i] = c]]

toLowerCaseChar(c) == IF c \in DOMAIN LowerOf THEN LowerOf[c] ELSE c

toLowerCase(s) == [i \in 1..Len(s) |-> toLowerCaseChar(s[i])]

RECURSIVE trimStart(_)
trimStart(s) ==
  IF s # <<>> /\ Head(s) \in WhiteSpace THEN trimStart(Tail(s)) ELSE s

RECURSIVE trimEnd(_)
trimEnd(s) ==
  IF s # <<>> /\ s[Len(s)] \in WhiteSpace
  THEN trimEnd(SubSeq(s, 1, Len(s) - 1))
  ELSE s

trim(s) == trimEnd(trimStart(s))

includes(s, item) ==
  \E i \in 1..(Len(s) - Len(item) + 1) : SubSeq(s, i, i + Len(item) - 1) = item

----------------------------------------------------------------------------
(* Regular expression syntax trees *)

Lit(s) == [op |-> "lit", s |-> s]

Rep(cls, min, greedy) == [op |-> "rep", cls |-> cls, min |-> min, greedy |-> greedy]

Cat(xs) == [op |-> "cat", xs |-> xs]

Alt(xs) == [op |-> "alt", xs |-> xs]

Opt(x) == [op |-> "opt", x |-> x]

Grp(n, x) == [op |-> "grp", n |-> n, x |-> x]

\* a changed ClassHas: \w written for \d
WordChar ==
  Digit \cup {"_"} \cup {UpperCase[i] : i \in 1..Len(UpperCase)}
    \cup {LowerCase[i] : i \in 1..Len(LowerCase)}

ClassHasWord(cls, c) ==
  CASE cls = "s" -> c \in WhiteSpace
    [] cls = "d" -> c \in WordChar
    [] cls = "." -> c \notin LineTerminator

\* the classes \s, \d and .
ClassHas(cls, c) ==
  CASE cls = "s" -> c \in WhiteSpace
    [] cls = "d" -> c \in Digit
    [] cls = "." -> c \notin LineTerminator

(* a match in progress: the next position and the capture groups so far *)
NoCaps == [n \in 1..4 |-> <<0, 0>>]

St(p, caps) == [pos |-> p, caps |-> caps]

RECURSIVE Run(_, _, _)
Run(cls, s, p) ==
  IF p <= Len(s) /\ ClassHas(cls, s[p]) THEN 1 + Run(cls, s, p + 1) ELSE 0

(* the i flag: characters are compared after case folding *)
HasAt(s, p, lit) ==
  /\ p + Len(lit) - 1 <= Len(s)
  /\ \A i \in 1..Len(lit) :
       toLowerCaseChar(s[p + i - 1]) = toLowerCaseChar(lit[i])

RECURSIVE M(_, _, _), MAll(_, _, _, _), MCat(_, _, _, _), MAlt(_, _, _, _)

(* every way re matches s from st, most preferred first *)
M(re, s, st) ==
  CASE re.op = "lit" ->
         IF HasAt(s, st.pos, re.s)
         THEN <<St(st.pos + Len(re.s), st.caps)>>
         ELSE <<>>
    [] re.op = "rep" ->
         LET k == Run(re.cls, s, st.pos)
         IN  IF k < re.min THEN <<>>
             ELSE [i \in 1..(k - re.min + 1) |->
                     St(st.pos + (IF re.greedy THEN k - (i - 1) ELSE re.min + (i - 1)),
                        st.caps)]
    [] re.op = "cat" -> MCat(re.xs, 1, s, <<st>>)
    [] re.op = "alt" -> MAlt(re.xs, 1, s, st)
    [] re.op = "opt" -> M(re.x, s, st) \o <<st>>
    [] re.op = "grp" ->
         LET rs == M(re.x, s, st)
         IN  [i \in 1..Len(rs) |->
                St(rs[i].pos, [rs[i].caps EXCEPT ![re.n] = <<st.pos, rs[i].pos>>])]

\* re continued from each of sts[j..], in their order
MAll(re, s, sts, j) ==
  IF j > Len(sts) THEN <<>> ELSE M(re, s, sts[j]) \o MAll(re, s, sts, j + 1)

MCat(xs, i, s, sts) ==
  IF i > Len(xs) THEN sts ELSE MCat(xs, i + 1, s, MAll(xs[i], s, sts, 1))

MAlt(xs, i, s, st) ==
  IF i > Len(xs) THEN <<>> ELSE M(xs[i], s, st) \o MAlt(xs, i + 1, s, st)

(* String.prototype.match without the g flag: the match at the leftmost    *)
(* start position that has one; <<>> stands for null                       *)
RECURSIVE matchFrom(_, _, _)
matchFrom(re, s, start) ==
  IF start > Len(s) + 1 THEN <<>>
  ELSE LET rs == M(re, s, St(start, NoCaps))
       IN  IF Len(rs) > 0 THEN <<rs[1]>> ELSE matchFrom(re, s, start + 1)

match(s, re) == matchFrom(re, s, 1)

(* match[n]: the text captured by group n *)
group(s, m, n) == SubSeq(s, m.caps[n][1], m.caps[n][2] - 1)

----------------------------------------------------------------------------
(* The patterns of parseProductFromText *)

\* (?:add\s+)?
AddPrefix == Opt(Cat(<<Lit(<<"a", "d", "d">>), Rep("s", 1, TRUE)>>))

\* \d+(?:\.\d+)?
Number == Cat(<<Rep("d", 1, TRUE), Opt(Cat(<<Lit(<<".">>), Rep("d", 1, TRUE)>>))>>)

\* kg|grams?|liter|litre|piece|dozen|box|bag|packet
Unit ==
  Alt(<<Lit(<<"k", "g">>), Cat(<<Lit(<<"g", "r", "a", "m">>), Opt(Lit(<<"s">>))>>), Lit(<<"l", "i", "t", "e", "r">>),
        Lit(<<"l", "i", "t", "r", "e">>), Lit(<<"p", "i", "e", "c", "e">>), Lit(<<"d", "o", "z", "e", "n">>), Lit(<<"b", "o", "x">>), Lit(<<"b", "a", "g">>),
        Lit(<<"p", "a", "c", "k", "e", "t">>)>>)

\* (?:price\s+|for\s+|at\s+|rupees?\s*)?
PriceWord ==
  Opt(Alt(<<Cat(<<Lit(<<"p", "r", "i", "c", "e">>), Rep("s", 1, TRUE)>>),
            Cat(<<Lit(<<"f", "o", "r">>), Rep("s", 1, TRUE)>>),
            Cat(<<Lit(<<"a", "t">>), Rep("s", 1, TRUE)>>),
            Cat(<<Lit(<<"r", "u", "p", "e", "e">>), Opt(Lit(<<"s">>)), Rep("s", 0, TRUE)>>)>>))

patterns ==
  << Cat(<<AddPrefix, Grp(1, Number), Rep("s", 0, TRUE), Grp(2, Unit),
           Rep("s", 1, TRUE), Grp(3, Rep(".", 1, FALSE)), Rep("s", 1, TRUE),
           PriceWord, Grp(4, Rep("d", 1, TRUE))>>),
     Cat(<<AddPrefix, Grp(1, Rep(".", 1, FALSE)), Rep("s", 1, TRUE),
           Grp(2, Number), Rep("s", 0, TRUE), Grp(3, Unit), Rep("s", 1, TRUE),
           PriceWord, Grp(4, Rep("d", 1, TRUE))>>),
     Cat(<<AddPrefix, Grp(1, Rep(".", 1, FALSE)), Rep("s", 1, TRUE), PriceWord,
           Grp(2, Rep("d", 1, TRUE)), Rep("s", 1, TRUE),
           Opt(Cat(<<Lit(<<"p", "e", "r">>), Rep("s", 1, TRUE)>>)), Grp(3, Number),
           Rep("s", 0, TRUE), Grp(4, Unit)>>) >>

----------------------------------------------------------------------------
(* detectCategory *)

categories ==
  << [category |-> "Vegetables",
      items |-> <<<<"t", "o", "m", "a", "t", "o">>, <<"p", "o", "t", "a", "t", "o">>, <<"o", "n", "i", "o", "n">>, <<"c", "a", "r", "r", "o", "t">>, <<"c", "a", "b", "b", "a", "g", "e">>,
                  <<"s", "p", "i", "n", "a", "c", "h">>, <<"l", "e", "t", "t", "u", "c", "e">>, <<"c", "u", "c", "u", "m", "b", "e", "r">>, <<"p", "e", "p", "p", "e", "r">>, <<"b", "r", "i", "n", "j", "a", "l">>,
                  <<"o", "k", "r", "a">>>>],
     [category |-> "Fruits",
      items |-> <<<<"a", "p", "p", "l", "e">>, <<"b", "a", "n", "a", "n", "a">>, <<"o", "r", "a", "n", "g", "e">>, <<"m", "a", "n", "g", "o">>, <<"g", "r", "a", "p", "e">>,
                  <<"s", "t", "r", "a", "w", "b", "e", "r", "r", "y">>, <<"w", "a", "t", "e", "r", "m", "e", "l", "o", "n">>, <<"p", "i", "n", "e", "a", "p", "p", "l", "e">>>>],
     [category |-> "Grains",
      items |-> <<<<"r", "i", "c", "e">>, <<"w", "h", "e", "a", "t">>, <<"b", "a", "r", "l", "e", "y">>, <<"c", "o", "r", "n">>, <<"m", "a", "i", "z", "e">>, <<"m", "i", "l", "l", "e", "t">>,
                  <<"q", "u", "i", "n", "o", "a">>>>],
     [category |-> "Dairy",
      items |-> <<<<"m", "i", "l", "k">>, <<"c", "h", "e", "e", "s", "e">>, <<"b", "u", "t", "t", "e", "r">>, <<"y", "o", "g", "u", "r", "t">>, <<"p", "a", "n", "e", "e", "r">>,
                  <<"c", "r", "e", "a", "m">>>>],
     [category |-> "Pulses",
      items |-> <<<<"d", "a", "l">>, <<"l", "e", "n", "t", "i", "l">>, <<"c", "h", "i", "c", "k", "p", "e", "a">>, <<"b", "e", "a", "n">>, <<"p", "e", "a", "s">>>>],
     [category |-> "Spices",
      items |-> <<<<"t", "u", "r", "m", "e", "r", "i", "c">>, <<"c", "h", "i", "l", "i">>, <<"c", "u", "m", "i", "n">>, <<"c", "o", "r", "i", "a", "n", "d", "e", "r">>,
                  <<"g", "a", "r", "a", "m", " ", "m", "a", "s", "a", "l", "a">>, <<"p", "e", "p", "p", "e", "r">>>>],
     [category |-> "Crafts",
      items |-> <<<<"h", "a", "n", "d", "i", "c", "r", "a", "f", "t">>, <<"p", "o", "t", "t", "e", "r", "y">>, <<"j", "e", "w", "e", "l", "r", "y">>, <<"t", "e", "x", "t", "i", "l", "e">>,
                  <<"p", "a", "i", "n", "t", "i", "n", "g">>, <<"d", "e", "c", "o", "r", "a", "t", "i", "o", "n">>>>],
     [category |-> "General",
      items |-> <<<<"s", "o", "a", "p">>, <<"d", "e", "t", "e", "r", "g", "e", "n", "t">>, <<"o", "i", "l">>, <<"s", "u", "g", "a", "r">>, <<"s", "a", "l", "t">>, <<"t", "e", "a">>,
                  <<"c", "o", "f", "f", "e", "e">>>>] >>

\* a changed detectFrom: another default than "Other"
RECURSIVE detectFromUncategorized(_, _)
detectFromUncategorized(lowerName, i) ==
  IF i > Len(categories) THEN "Uncategorized"
  ELSE IF \E k \in 1..Len(categories[i].items) :
            includes(lowerName, categories[i].items[k])
       THEN categories[i].category
       ELSE detectFromUncategorized(lowerName, i + 1)

RECURSIVE detectFrom(_, _)
detectFrom(lowerName, i) ==
  IF i > Len(categories) THEN "Other"
  ELSE IF \E k \in 1..Len(categories[i].items) :
            includes(lowerName, categories[i].items[k])
       THEN categories[i].category
       ELSE detectFrom(lowerName, i + 1)

\* a changed detectCategory: the name is not lower-cased
detectCategoryCaseSensitive(name) == detectFrom(name, 1)

detectCategory(name) == detectFrom(toLowerCase(name), 1)

----------------------------------------------------------------------------
(* parseProductFromText *)

(* null *)
Null == <<>>

(* the destructuring of the match of patterns[i] *)
destructure(i, lowerText, m) ==
  IF i = 1
  THEN [quantity |-> group(lowerText, m, 1), unit |-> group(lowerText, m, 2),
        name |-> group(lowerText, m, 3), price |-> group(lowerText, m, 4)]
  ELSE IF i = 2
  THEN [name |-> group(lowerText, m, 1), quantity |-> group(lowerText, m, 2),
        unit |-> group(lowerText, m, 3), price |-> group(lowerText, m, 4)]
  ELSE [name |-> group(lowerText, m, 1), price |-> group(lowerText, m, 2),
        quantity |-> group(lowerText, m, 3), unit |-> group(lowerText, m, 4)]

(* the returned object *)
ProductData(f) ==
  [name |-> trim(f.name), price |-> f.price, quantity |-> f.quantity,
   unit |-> f.unit, category |-> detectCategory(f.name)]

\* a changed parseLoop: the loop does not return at the first match, so the
\* last pattern that matches decides
RECURSIVE parseLoopLastWins(_, _)
parseLoopLastWins(lowerText, i) ==
  IF i > Len(patterns) THEN [value |-> Null, tried |-> Len(patterns)]
  ELSE LET m == match(lowerText, patterns[i])
           rest == parseLoopLastWins(lowerText, i + 1)
       IN  IF Len(rest.value) > 0 THEN rest
           ELSE IF Len(m) > 0
           THEN [value |-> <<ProductData(destructure(i, lowerText, m[1]))>>,
                 tried |-> i]
           ELSE rest

\* a changed parseLoop: when no pattern matches, the whole text is returned
\* as the name of a product instead of null
RECURSIVE parseLoopNameFallback(_, _)
parseLoopNameFallback(lowerText, i) ==
  IF i > Len(patterns)
  THEN [value |-> <<ProductData([name |-> lowerText, price |-> <<>>,
                                 quantity |-> <<>>, unit |-> <<>>])>>,
        tried |-> Len(patterns)]
  ELSE LET m == match(lowerText, patterns[i])
       IN  IF Len(m) > 0
           THEN [value |-> <<ProductData(destructure(i, lowerText, m[1]))>>,
                 tried |-> i]
           ELSE parseLoopNameFallback(lowerText, i + 1)

(* the for loop over the patterns, from patterns[i] on: the value returned *)
(* and the number of patterns on which match was called                    *)
RECURSIVE parseLoop(_, _)
parseLoop(lowerText, i) ==
  IF i > Len(patterns) THEN [value |-> Null, tried |-> Len(patterns)]
  ELSE LET m == match(lowerText, patterns[i])
       IN  IF Len(m) > 0
           THEN [value |-> <<ProductData(destructure(i, lowerText, m[1]))>>,
                 tried |-> i]
           ELSE parseLoop(lowerText, i + 1)

parseCall(txt) == parseLoop(toLowerCase(txt), 1)

parseProductFromText(txt) == parseCall(txt).value

----------------------------------------------------------------------------
(* Utterances *)

MaxBlank == 4

MaxWords == 4

MaxGap == 3

\* unit tokens the patterns recognise
UnitTokens == { <<"k", "g">>, <<"g", "r", "a", "m">>, <<"g", "r", "a", "m", "s">>, <<"l", "i", "t", "r", "e">>, <<"p", "a", "c", "k", "e", "t">> }

AddWords == { <<>>, <<"a", "d", "d", " ">> }

Quantities == { <<"1">>, <<"2", ".", "5">> }

UnitGaps == { <<>>, <<" ">> }

Names == { <<"r", "i", "c", "e">>, <<"R", "i", "c", "e">>, <<"b", "a", "s", "m", "a", "t", "i", " ", "r", "i", "c", "e">>, <<"c", "o", "k", "e", " ", "2", " ", "l", "i", "t", "e", "r">> }

PriceWords == { <<>>, <<"p", "r", "i", "c", "e", " ">>, <<"f", "o", "r", " ">>, <<"a", "t", " ">>, <<"r", "u", "p", "e", "e", "s", " ">> }

Prices == { <<"3", "0">> }

PerWords == { <<>>, <<"p", "e", "r", " ">> }

BlankChars == { " ", "\t", "\n" }

Words == { <<"h", "e", "l", "l", "o">>, <<"k", "g">>, <<"r", "i", "c", "e">> }

\* an utterance and the parts it was built from: form 0 is free text, forms
\* 1 to 3 are the three surface forms, and form 4 is a quantity and a unit
\* followed by white space (held in name) and a price
Built(form, add, qty, gap, unit, name, word, price, per) ==
  [form |-> form, add |-> add, qty |-> qty, gap |-> gap, unit |-> unit,
   name |-> name, word |-> word, price |-> price, per |-> per]

Free(s) == Built(0, <<>>, <<>>, <<>>, <<>>, s, <<>>, <<>>, <<>>)

render(b) ==
  CASE b.form = 0 -> b.name
    [] b.form = 1 ->
         b.add \o b.qty \o b.gap \o b.unit \o <<" ">> \o b.name \o <<" ">> \o b.word
           \o b.price
    [] b.form = 2 ->
         b.add \o b.name \o <<" ">> \o b.qty \o b.gap \o b.unit \o <<" ">> \o b.word
           \o b.price
    [] b.form = 3 ->
         b.add \o b.name \o <<" ">> \o b.word \o b.price \o <<" ">> \o b.per
           \o b.qty \o b.gap \o b.unit
    [] b.form = 4 -> b.add \o b.qty \o b.gap \o b.unit \o b.name \o b.price

Samples ==
  { <<"A", "d", "d", " ", "1", "k", "g", " ", "t", "o", "m", "a", "t", "o", "e", "s", " ", "f", "o", "r", " ", "RUPEE", "3", "0">>, <<"r", "i", "c", "e", " ", "5", "k", "g", " ", "RUPEE", "2", "5", "0">>,
    <<"p", "o", "t", "a", "t", "o", "e", "s", " ", "p", "r", "i", "c", "e", " ", "5", "0", " ", "r", "u", "p", "e", "e", "s", " ", "p", "e", "r", " ", "2", "k", "g">>, <<"h", "e", "l", "l", "o", " ", "t", "h", "e", "r", "e">>, <<>>, <<" ", " ", " ">>,
    <<"R", "i", "c", "e", " ", "2", "5", "k", "g", " ", "p", "r", "i", "c", "e", " ", "5", "0", "0">>, <<"t", "o", "m", "a", "t", "o", "e", "s", " ", "1", " ", "k", "g", " ", "p", "r", "i", "c", "e", " ", "3", "0">>, <<"r", "i", "c", "e", " ", "2", "5", "k", "g", " ", "5", "0", "0">>,
    <<"a", "d", "d", " ", "r", "i", "c", "e", " ", "2", "5", "k", "g", " ", "5", "0", "0">>, <<"1", "k", "g", " ", " ", " ", "3", "0">>, <<"1", "k", "g", " ", " ", "3", "0">>, <<"1", " ", "k", "g", " ", "R", "i", "c", "e", " ", "3", "0">>,
    <<"a", "d", "d", " ", "1", "k", "g", " ", "t", "o", "m", "a", "t", "o", "e", "s", " ", "3", "0", " ", "r", "u", "p", "e", "e", "s">>, <<"A", "d", "d", " ", "1", "k", "g", " ", "t", "o", "m", "a", "t", "o", "e", "s", " ", "RUPEE", "3", "0">>,
    <<"p", "o", "t", "a", "t", "o", "e", "s", " ", "p", "r", "i", "c", "e", " ", "5", "0", " ", "p", "e", "r", " ", "2", "k", "g">>, <<"p", "o", "t", "a", "t", "o", "e", "s", " ", "5", "0", " ", "2", "k", "g">>, <<"a", "d", "d", " ", "5", "k", "g", " ", "2", "5", "0">>,
    <<"1", "k", "g", " ", "c", "o", "k", "e", " ", "2", " ", "l", "i", "t", "e", "r", " ", "3", "0">>, <<"1", "k", "g", "\t", "\t", "\t", "3", "0">>, <<"1", "k", "g", " ", "\n", " ", "3", "0">> }

Form1 ==
  { Built(1, a, q, g, u, n, w, p, <<>>) :
      a \in AddWords, q \in Quantities, g \in UnitGaps, u \in UnitTokens,
      n \in Names, w \in PriceWords, p \in Prices }

Form2 ==
  { Built(2, a, q, g, u, n, w, p, <<>>) :
      a \in AddWords, q \in Quantities, g \in UnitGaps, u \in UnitTokens,
      n \in Names, w \in PriceWords, p \in Prices }

Form3 ==
  { Built(3, a, q, <<>>, u, n, w, p, r) :
      a \in AddWords, q \in Quantities, u \in UnitTokens, n \in Names,
      w \in PriceWords, p \in Prices, r \in PerWords }

Form4 ==
  { Built(4, a, q, g, u, [i \in 1..k |-> c], <<>>, p, <<>>) :
      a \in AddWords, q \in Quantities, g \in UnitGaps, u \in UnitTokens,
      k \in 1..MaxGap, c \in BlankChars, p \in Prices }

\* words in the unit position that only begin with a unit token
OtherUnitWords == { <<"p", "a", "c", "k", "e", "t", "s">>, <<"b", "o", "x", "e", "s">>, <<"b", "a", "g", "e", "l", "s">> }

\* the three surface forms with other unit words, leading zeros and a price
\* with a decimal part
Form5 ==
  { Built(f, <<>>, q, g, u, <<"r", "i", "c", "e">>, <<>>, p, <<>>) :
      f \in 1..3, q \in { <<"1">>, <<"0", "0", "7">> }, g \in UnitGaps,
      u \in OtherUnitWords \cup { <<"k", "g">> }, p \in { <<"3", "0">>, <<"3", "0", ".", "5", "0">> } }

Blank == UNION { [1..k -> BlankChars] : k \in 0..MaxBlank }

RECURSIVE join(_)
join(ws) ==
  IF Len(ws) = 0 THEN <<>>
  ELSE IF Len(ws) = 1 THEN ws[1]
  ELSE ws[1] \o <<" ">> \o join(Tail(ws))

DigitFree == { join(ws) : ws \in UNION { [1..k -> Words] : k \in 1..MaxWords } }

Utterances ==
  { Free(s) : s \in Samples \cup Blank \cup DigitFree }
    \cup Form1 \cup Form2 \cup Form3 \cup Form4 \cup Form5

ParserInit ==
  /\ built \in Utterances
  /\ text = render(built)
  /\ result = Null
  /\ tried = 0
  /\ pc = "heard"

Init == ParserInit /\ CategoryIdle /\ VoiceIdle /\ CatalogIdle /\ AppIdle /\ RestIdle

\* recognition.onresult hands the transcript to parseProductFromText
Parse ==
  /\ pc = "heard"
  /\ LET r == parseCall(text)
     IN  /\ result' = r.value
         /\ tried' = r.tried
  /\ pc' = "parsed"
  /\ UNCHANGED <<built, text>>
  /\ UNCHANGED <<categoryVars, voiceVars, catalogVars, appVars, restVars>>

Next == Parse

Spec == Init /\ [][Next]_vars
----------------------------------------------------------------------------
(* Properties of parseProductFromText *)

loweredText == toLowerCase(text)

\* patterns[i] matches the utterance
matches(i) == Len(match(loweredText, patterns[i])) > 0

\* what the capture groups of patterns[i] give for the utterance
captured(i) ==
  ProductData(destructure(i, loweredText, match(loweredText, patterns[i])[1]))

\* the capture group of patterns[i] that holds the product name
nameGroup(i) == IF i = 1 THEN 3 ELSE 1

Blanks(s) == \A i \in 1..Len(s) : s[i] \in WhiteSpace

NoDigit(s) == \A i \in 1..Len(s) : s[i] \notin Digit

\* C1: every utterance built as [add ]Q U N [price |for |at |rupees ]P parses
\* to exactly quantity Q, unit U, name N trimmed and price P.
C1_Form1Fields ==
  (pc = "parsed" /\ built.form = 1) =>
    /\ result # Null
    /\ result[1].quantity = built.qty
    /\ result[1].unit = built.unit
    /\ result[1].name = trim(built.name)
    /\ result[1].price = built.price

\* C2: every utterance built as [add ]N Q U [price |for |at |rupees ]P parses
\* to name N, quantity Q, unit U and price P, with or without the keyword.
C2_Form2Fields ==
  (pc = "parsed" /\ built.form = 2) =>
    /\ result # Null
    /\ result[1].name = trim(built.name)
    /\ result[1].quantity = built.qty
    /\ result[1].unit = built.unit
    /\ result[1].price = built.price

\* C3: the patterns are tried in the order 1, 2, 3 and the first that matches
\* decides: the result is what the lowest-numbered matching pattern captures,
\* match is called on a pattern only if every earlier pattern failed, and the
\* result is null exactly when no pattern matches.
C3_FirstMatchWins ==
  pc = "parsed" =>
    LET matching == {i \in 1..Len(patterns) : matches(i)}
    IN  IF matching # {}
        THEN LET first == CHOOSE i \in matching : \A j \in matching : i <= j
             IN  tried = first /\ result = <<captured(first)>>
        ELSE tried = Len(patterns) /\ result = Null

\* C3 witness: an utterance that patterns 1 and 2 both match, with different
\* names, has been parsed and carries the name captured by pattern 1.
C3_Witness ==
  /\ pc = "parsed"
  /\ matches(1) /\ matches(2)
  /\ captured(1).name # captured(2).name
  /\ result = <<captured(1)>>

\* C4: every command returned has a name that is not empty after trimming, so
\* an utterance whose name group holds only white space gives null.
C4_NameNotEmpty ==
  (pc = "parsed" /\ result # Null) => trim(result[1].name) # <<>>

\* C5: the name returned is the captured substring of the utterance in its
\* original case, trimmed.
C5_OriginalCase ==
  (pc = "parsed" /\ result # Null) =>
    result[1].name =
      trim(group(text, match(loweredText, patterns[tried])[1], nameGroup(tried)))

\* C6: "Add 1kg tomatoes for RUPEE30" parses to quantity 1, unit kg, name
\* tomatoes, price 30, category Vegetables.
C6_TomatoesScenario ==
  (pc = "parsed" /\ text = <<"A", "d", "d", " ", "1", "k", "g", " ", "t", "o", "m", "a", "t", "o", "e", "s", " ", "f", "o", "r", " ", "RUPEE", "3", "0">>) =>
    result = << [name |-> <<"t", "o", "m", "a", "t", "o", "e", "s">>, price |-> <<"3", "0">>, quantity |-> <<"1">>,
                 unit |-> <<"k", "g">>, category |-> "Vegetables"] >>

\* C7: "rice 5kg RUPEE250" parses to quantity 5, unit kg, name rice, price
\* 250, category Grains.
C7_RiceScenario ==
  (pc = "parsed" /\ text = <<"r", "i", "c", "e", " ", "5", "k", "g", " ", "RUPEE", "2", "5", "0">>) =>
    result = << [name |-> <<"r", "i", "c", "e">>, price |-> <<"2", "5", "0">>, quantity |-> <<"5">>,
                 unit |-> <<"k", "g">>, category |-> "Grains"] >>

\* C8: "potatoes price 50 rupees per 2kg" parses through pattern 3 to
\* quantity 2, unit kg, name potatoes, price 50, category Vegetables.
C8_PotatoesScenario ==
  (pc = "parsed" /\ text = <<"p", "o", "t", "a", "t", "o", "e", "s", " ", "p", "r", "i", "c", "e", " ", "5", "0", " ", "r", "u", "p", "e", "e", "s", " ", "p", "e", "r", " ", "2", "k", "g">>) =>
    /\ tried = 3
    /\ result = << [name |-> <<"p", "o", "t", "a", "t", "o", "e", "s">>, price |-> <<"5", "0">>, quantity |-> <<"2">>,
                    unit |-> <<"k", "g">>, category |-> "Vegetables"] >>

\* C9: the empty string and every utterance of white space only give null.
C9_BlankFails == (pc = "parsed" /\ Blanks(text)) => result = Null

\* C9 witness: a non-empty utterance of white space only has been parsed.
C9_Witness ==
  pc = "parsed" /\ Len(text) > 0 /\ Blanks(text) /\ result = Null

\* C10: a command is returned only if one of the patterns matches the
\* utterance, and every utterance without a decimal digit gives null.
C10_NoMatchIsNull ==
  pc = "parsed" =>
    /\ result # Null => \E i \in 1..Len(patterns) : matches(i)
    /\ NoDigit(text) => result = Null

\* C10 witness: an utterance of words without any digit has been parsed.
C10_Witness ==
  /\ pc = "parsed"
  /\ NoDigit(text) /\ ~Blanks(text)
  /\ result = Null


\* the unit tokens of the patterns
RecognizedUnits ==
  { <<"k", "g">>, <<"g", "r", "a", "m">>, <<"g", "r", "a", "m", "s">>, <<"l", "i", "t", "e", "r">>, <<"l", "i", "t", "r", "e">>, <<"p", "i", "e", "c", "e">>, <<"d", "o", "z", "e", "n">>, <<"b", "o", "x">>,
    <<"b", "a", "g">>, <<"p", "a", "c", "k", "e", "t">> }

\* ProductForm.tsx: the units and categories of the manual form
UNITS ==
  { <<"k", "g">>, <<"g", "r", "a", "m", "s">>, <<"l", "i", "t", "e", "r">>, <<"p", "i", "e", "c", "e">>, <<"d", "o", "z", "e", "n">>, <<"b", "o", "x">>, <<"b", "a", "g">>, <<"p", "a", "c", "k", "e", "t">>,
    <<"m", "e", "t", "e", "r">>, <<"s", "q", "u", "a", "r", "e", " ", "f", "t">> }

CATEGORIES ==
  { "Vegetables", "Fruits", "Grains", "Dairy", "Pulses", "Spices", "Crafts",
    "General", "Other" }

\* C13: a pattern matches only when the word in the unit position is one of
\* the recognised unit tokens: with any other word there, also one that only
\* begins with a token, the pattern of that surface form does not match.
C13_UnitWordExact ==
  (pc = "parsed" /\ built.form \in 1..3 /\ built.unit \notin RecognizedUnits)
    => ~matches(built.form)

\* C14: the unit of every command returned is one of the units of the manual
\* form.
C14_UnitInFormUnits ==
  (pc = "parsed" /\ result # Null) => result[1].unit \in UNITS

NumberChar == Digit \cup {"."}

\* v stands in t as a whole numeric token: no digit or point touches it
WholeNumber(t, v) ==
  \E i \in 1..(Len(t) - Len(v) + 1) :
    /\ SubSeq(t, i, i + Len(v) - 1) = v
    /\ i = 1 \/ t[i - 1] \notin NumberChar
    /\ i + Len(v) > Len(t) \/ t[i + Len(v)] \notin NumberChar

\* C15: the quantity and the price returned are numeric tokens of the
\* utterance, character for character and whole: nothing is cut off.
C15_NumbersWhole ==
  (pc = "parsed" /\ result # Null) =>
    /\ WholeNumber(text, result[1].quantity)
    /\ WholeNumber(text, result[1].price)

\* C16: the category returned is detectCategory of the name returned, and it
\* is one of the categories of the manual form.
C16_CategoryOfName ==
  (pc = "parsed" /\ result # Null) =>
    /\ result[1].category = detectCategory(result[1].name)
    /\ result[1].category \in CATEGORIES

\* C16 witness: a command has been returned whose name is found in the
\* lexicon, so its category is not the default.
C16_Witness ==
  /\ pc = "parsed" /\ result # Null
  /\ result[1].name # <<>>
  /\ result[1].category \notin {"Other"}

\* C22: an utterance without a product name, only the optional "add", a
\* quantity with its unit and a price, does not parse, and no command
\* returned has the name "add".
C22_VerbNotProduct ==
  pc = "parsed" =>
    /\ built.form = 4 => result = Null
    /\ result # Null => result[1].name # <<"a", "d", "d">>
----------------------------------------------------------------------------
(* detectCategory on its own *)

ItemsOf(i) == {categories[i].items[k] : k \in 1..Len(categories[i].items)}

Keywords == UNION {ItemsOf(i) : i \in 1..Len(categories)}

\* the first keyword of each category
FirstKeywords == {categories[i].items[1] : i \in 1..Len(categories)}

NameSamples ==
  { <<"b", "a", "s", "m", "a", "t", "i", " ", "r", "i", "c", "e">>, <<"B", "a", "s", "m", "a", "t", "i", " ", "R", "i", "c", "e">>, <<"x", "y", "z", "-", "u", "n", "k", "n", "o", "w", "n", "-", "i", "t", "e", "m">>, <<"T", "O", "M", "A", "T", "O">>,
    <<"G", "r", "e", "e", "n", " ", "P", "e", "a", "s">>, <<"p", "r", "i", "c", "e">>, <<"s", "a", "f", "f", "r", "o", "n">>, <<>>, <<"g", "a", "r", "a", "m", " ", " ", "m", "a", "s", "a", "l", "a">> }

\* keywords, keywords of two categories in both orders, and the samples
ProductNames ==
  Keywords
    \cup {a \o <<" ">> \o b : a \in Keywords, b \in FirstKeywords}
    \cup {b \o <<" ">> \o a : a \in Keywords, b \in FirstKeywords}
    \cup NameSamples

CategoryInit ==
  /\ productName \in ProductNames
  /\ category = ""
  /\ cpc = "asked"

InitCategory == CategoryInit /\ ParserIdle /\ VoiceIdle /\ CatalogIdle /\ AppIdle /\ RestIdle

Detect ==
  /\ cpc = "asked"
  /\ category' = detectCategory(productName)
  /\ cpc' = "detected"
  /\ UNCHANGED productName
  /\ UNCHANGED <<parserVars, voiceVars, catalogVars, appVars, restVars>>

NextCategory == Detect

SpecCategory == InitCategory /\ [][NextCategory]_vars

\* category i has a keyword that occurs in the lower-cased name
hasKeyword(i, name) == \E item \in ItemsOf(i) : includes(toLowerCase(name), item)

\* C11: detectCategory returns the first category, in the declared order,
\* that has a keyword occurring in the lower-cased name, and "Other" exactly
\* when no category has one.
C11_FirstCategory ==
  cpc = "detected" =>
    LET having == {i \in 1..Len(categories) : hasKeyword(i, productName)}
    IN  IF having = {} THEN category = "Other"
        ELSE /\ category = categories[CHOOSE i \in having : \A j \in having : i <= j].category
             /\ category # "Other"

\* C11 witness: a name holding keywords of two categories, the later category
\* first in the name, has been given the earlier category.
C11_Witness ==
  /\ cpc = "detected"
  /\ \E i, j \in 1..Len(categories) :
       /\ i < j
       /\ \E a \in ItemsOf(i), b \in ItemsOf(j) : productName = b \o <<" ">> \o a
       /\ category = categories[i].category

\* C12: no keyword belongs to two categories, and every category is returned
\* by detectCategory for one of its own keywords.
C12_DisjointLexicon ==
  /\ cpc = "detected" =>
       \A i, j \in 1..Len(categories) :
         (productName \in ItemsOf(i) /\ productName \in ItemsOf(j)) => i = j
  /\ \A i \in 1..Len(categories) :
       \E item \in ItemsOf(i) : detectCategory(item) = categories[i].category


-----------------------------------------------------------------------------
(* VoiceProductInput: the speech recognition handlers.  ProductForm holds   *)
(* isListening and passes a new onProductDetected function on every render, *)
(* so every render of ProductForm runs the setup effect again: it puts a    *)
(* new SpeechRecognition instance into recognitionRef and leaves the        *)
(* previous instance, with its handlers, as it is.                          *)

\* the SpeechRecognition instances that exist together
MaxInstances == 3

\* the products handed to onProductDetected in one behaviour
MaxDetected == 2

\* confidence is counted in tenths: 5 stands for 0.5
ConfidenceThreshold == 5

Confidences == {0, 5, 6, 10}

Transcripts ==
  { <<"A", "d", "d", " ", "1", "k", "g", " ", "t", "o", "m", "a", "t", "o", "e", "s", " ", "3", "0", " ", "r", "u", "p", "e", "e", "s">>, <<"R", "i", "c", "e", " ", "2", "5", "k", "g", " ", "p", "r", "i", "c", "e", " ", "5", "0", "0">>, <<"t", "o", "m", "a", "t", "o", "e", "s">>, <<>> }

Errors == {"no-speech", "audio-capture", "not-allowed", "network"}

\* parseProductFromText of every transcript
parseOf == [t \in Transcripts |-> parseProductFromText(t)]

Instances == 1..MaxInstances

\* the toasts
ProductAdded(productData) ==
  [title |-> "Product Added!",
   description |-> <<"Added ", productData.name, " - ", productData.price>>]

CouldNotUnderstand ==
  [title |-> "Could not understand",
   description |-> <<"Try saying: \"Add 1kg tomatoes 30 rupees\"">>]

SpeakClearly ==
  [title |-> "Please speak clearly",
   description |-> <<"Try again with clear pronunciation">>]

errorMessage(error) ==
  CASE error = "no-speech" ->
         "No speech detected. Try saying: 'Add 1kg rice 50 rupees'"
    [] error = "audio-capture" ->
         "Microphone not working. Please check permissions."
    [] error = "not-allowed" ->
         "Please allow microphone access to add products by voice."
    [] OTHER -> "Voice recognition failed"

VoiceInputError(error) ==
  [title |-> "Voice Input Error", description |-> <<errorMessage(error)>>]

NotSupported ==
  [title |-> "Not Supported",
   description |-> <<"Voice input is not supported in this browser.">>]

SayYourProduct ==
  [title |-> "Say your product...",
   description |-> <<"Example: 'Add 1kg tomatoes 30 rupees'">>]

StartError ==
  [title |-> "Error", description |-> <<"Failed to start voice input">>]

\* a session that can still deliver a result or an error
Live == {"listening", "stopping"}

\* the setup effect: recognitionRef gets a new instance.  An instance that
\* was never started, or has ended, cannot be told from a new one, so the
\* new instance takes the first such place.
setup(s) == CHOOSE i \in Instances :
              /\ s[i] = "inactive"
              /\ \A j \in Instances : s[j] = "inactive" => i <= j

canSetup(s) == \E i \in Instances : s[i] = "inactive"

\* ProductForm renders again when its state has changed, and then the setup
\* effect runs
rendered(changed, s) ==
  IF changed /\ isSupported THEN setup(s) ELSE recognitionRef

Event(kind, c, t) == [event |-> kind, confidence |-> c, text |-> t]

VoiceInit ==
  /\ isSupported \in BOOLEAN
  /\ isListening = FALSE
  /\ sessions = [i \in Instances |-> "inactive"]
  /\ recognitionRef = IF isSupported THEN 1 ELSE 0
  /\ toast = <<>>
  /\ detected = <<>>
  /\ handled = Event("mount", 0, <<>>)

InitVoice == VoiceInit /\ ParserIdle /\ CategoryIdle /\ CatalogIdle /\ AppIdle /\ RestIdle

toggleListening ==
  /\ handled' = Event("toggle", 0, <<>>)
  /\ detected' = detected
  /\ UNCHANGED <<isSupported, parserVars, categoryVars, catalogVars, appVars, restVars>>
  /\ IF ~isSupported
     THEN /\ toast' = NotSupported
          /\ UNCHANGED <<isListening, recognitionRef, sessions>>
     ELSE IF isListening
     THEN \* stop() on the instance held in recognitionRef
          /\ sessions' = IF sessions[recognitionRef] = "listening"
                         THEN [sessions EXCEPT ![recognitionRef] = "stopping"]
                         ELSE sessions
          /\ UNCHANGED <<isListening, recognitionRef, toast>>
     ELSE IF sessions[recognitionRef] # "inactive"
     THEN \* start() throws on an instance that has been started
          /\ toast' = StartError
          /\ UNCHANGED <<isListening, recognitionRef, sessions>>
     ELSE /\ sessions' = [sessions EXCEPT ![recognitionRef] = "listening"]
          /\ canSetup(sessions')
          /\ isListening' = TRUE
          /\ toast' = SayYourProduct
          /\ recognitionRef' = rendered(TRUE, sessions')

\* a changed resultOutcome: a transcript that does not parse is answered like
\* a result of low confidence
resultOutcomeSpeakClearly(transcript, confidence, handed) ==
  LET productData == parseOf[transcript]
  IN  IF confidence > ConfidenceThreshold /\ productData # Null
      THEN [toast |-> ProductAdded(productData[1]),
            detected |-> Append(handed, productData[1])]
      ELSE [toast |-> SpeakClearly, detected |-> handed]

\* a changed resultOutcome: a confidence of 0.5 is enough
resultOutcomeAtLeast(transcript, confidence, handed) ==
  LET productData == parseOf[transcript]
  IN  IF confidence >= ConfidenceThreshold
      THEN IF productData # Null
           THEN [toast |-> ProductAdded(productData[1]),
                 detected |-> Append(handed, productData[1])]
           ELSE [toast |-> CouldNotUnderstand, detected |-> handed]
      ELSE [toast |-> SpeakClearly, detected |-> handed]

\* onresult up to setIsListening(false): the toast shown and the products
\* handed to onProductDetected
resultOutcome(transcript, confidence, handed) ==
  LET productData == parseOf[transcript]
  IN  IF confidence > ConfidenceThreshold
      THEN IF productData # Null
           THEN [toast |-> ProductAdded(productData[1]),
                 detected |-> Append(handed, productData[1])]
           ELSE [toast |-> CouldNotUnderstand, detected |-> handed]
      ELSE [toast |-> SpeakClearly, detected |-> handed]

onresult(i, transcript, confidence) ==
  LET out == resultOutcome(transcript, confidence, detected)
      changed == isListening \/ out.detected # detected
  IN  /\ sessions[i] \in Live
      /\ Len(out.detected) <= MaxDetected
      /\ sessions' = [sessions EXCEPT ![i] = "closing"]
      /\ changed => canSetup(sessions')
      /\ toast' = out.toast
      /\ detected' = out.detected
      /\ isListening' = FALSE
      /\ recognitionRef' = rendered(changed, sessions')
      /\ handled' = Event("result", confidence, transcript)
      /\ UNCHANGED <<isSupported, parserVars, categoryVars, catalogVars, appVars, restVars>>

onerror(i, error) ==
  /\ sessions[i] \in Live
  /\ sessions' = [sessions EXCEPT ![i] = "closing"]
  /\ isListening => canSetup(sessions')
  /\ isListening' = FALSE
  /\ toast' = VoiceInputError(error)
  /\ recognitionRef' = rendered(isListening, sessions')
  /\ handled' = Event("error", 0, <<>>)
  /\ UNCHANGED <<isSupported, detected, parserVars, categoryVars, catalogVars, appVars, restVars>>

onend(i) ==
  /\ sessions[i] \in Live \cup {"closing"}
  /\ sessions' = [sessions EXCEPT ![i] = "inactive"]
  /\ isListening' = FALSE
  /\ recognitionRef' = rendered(isListening, sessions')
  /\ handled' = Event("end", 0, <<>>)
  /\ UNCHANGED <<isSupported, toast, detected, parserVars, categoryVars, catalogVars, appVars, restVars>>

NextVoice ==
  \/ toggleListening
  \/ \E i \in Instances, t \in Transcripts, c \in Confidences :
       onresult(i, t, c)
  \/ \E i \in Instances, e \in Errors : onerror(i, e)
  \/ \E i \in Instances : onend(i)

SpecVoice == InitVoice /\ [][NextVoice]_vars

\* C18: when a speech result is handled and the parser returns null, the
\* handler shows the hint with the example command (and no error toast),
\* hands no product to onProductDetected and sets isListening to false.
C18_FailureRecovers ==
  [][ ( /\ \E i \in Instances : sessions[i] \in Live /\ sessions'[i] = "closing"
        /\ handled'.event = "result"
        /\ handled'.confidence > ConfidenceThreshold
        /\ parseProductFromText(handled'.text) = Null )
      => ( /\ toast' = CouldNotUnderstand
           /\ detected' = detected
           /\ isListening' = FALSE ) ]_vars

\* C18 witness: a result whose transcript does not parse has been handled
\* while the component was listening and after a product had been added.
C18_Witness ==
  /\ handled.event = "result"
  /\ handled.confidence > ConfidenceThreshold
  /\ parseOf[handled.text] = Null
  /\ toast = CouldNotUnderstand
  /\ detected # <<>>
  /\ ~isListening

\* started and not yet ended
Started == {i \in Instances : sessions[i] # "inactive"}

\* C23: at most one instance is started and not yet ended, and it is the one
\* held in recognitionRef, the instance stop() is called on by a toggle while
\* isListening is true.
C23_OneStartedInstance ==
  /\ Cardinality(Started) <= 1
  /\ \A i \in Started : i = recognitionRef

-----------------------------------------------------------------------------
(* CatalogManager: the products state and its copy in localStorage *)

\* the products in the catalog
MaxProducts == 2

\* the values of the clock
MaxNow == 3

\* the fields of a Product, in the order the handlers create them
Keys == <<"id", "name", "price", "quantity", "unit", "category", "description">>

KeyText ==
  [id |-> <<"i", "d">>, name |-> <<"n", "a", "m", "e">>, price |-> <<"p", "r", "i", "c", "e">>,
   quantity |-> <<"q", "u", "a", "n", "t", "i", "t", "y">>, unit |-> <<"u", "n", "i", "t">>, category |-> <<"c", "a", "t", "e", "g", "o", "r", "y">>,
   description |-> <<"d", "e", "s", "c", "r", "i", "p", "t", "i", "o", "n">>]

KeySet == {Keys[k] : k \in 1..Len(Keys)}

\* JSON.stringify of a string: the string literal
RECURSIVE escape(_)
escape(s) ==
  IF s = <<>> THEN <<>>
  ELSE LET c == Head(s)
       IN  (IF c = "\"" THEN <<"\\", "\"">>
            ELSE IF c = "\\" THEN <<"\\", "\\">>
            ELSE IF c = "\n" THEN <<"\\", "n">>
            ELSE <<c>>) \o escape(Tail(s))

quote(s) == <<"\"">> \o escape(s) \o <<"\"">>

RECURSIVE members(_, _)
members(product, k) ==
  IF k > Len(Keys) THEN <<>>
  ELSE (IF k > 1 THEN <<",">> ELSE <<>>)
       \o quote(KeyText[Keys[k]]) \o <<":">> \o quote(product[Keys[k]])
       \o members(product, k + 1)

RECURSIVE elements(_, _)
elements(list, i) ==
  IF i > Len(list) THEN <<>>
  ELSE (IF i > 1 THEN <<",">> ELSE <<>>)
       \o <<"{">> \o members(list[i], 1) \o <<"}">> \o elements(list, i + 1)

\* JSON.stringify of a list of products
stringify(list) == <<"[">> \o elements(list, 1) \o <<"]">>

\* JSON.parse: a string literal whose opening quote stands before t[i]
RECURSIVE readString(_, _, _)
readString(t, i, acc) ==
  IF i > Len(t) THEN [value |-> acc, next |-> i]
  ELSE IF t[i] = "\"" THEN [value |-> acc, next |-> i + 1]
  ELSE IF t[i] = "\\" /\ i < Len(t)
       THEN readString(t, i + 2,
                       Append(acc, IF t[i + 1] = "n" THEN "\n" ELSE t[i + 1]))
       ELSE readString(t, i + 1, Append(acc, t[i]))

\* the members of an object from t[i], the opening quote of a key
RECURSIVE readMembers(_, _, _)
readMembers(t, i, acc) ==
  LET key == readString(t, i + 1, <<>>)
      val == readString(t, key.next + 2, <<>>)
      all == Append(acc, <<key.value, val.value>>)
  IN  IF val.next <= Len(t) /\ t[val.next] = ","
      THEN readMembers(t, val.next + 1, all)
      ELSE [value |-> all, next |-> val.next + 1]

\* the object with the members read: a later member of the same key wins, a
\* key without a member is undefined
object(read) ==
  [k \in KeySet |->
     LET at == {n \in 1..Len(read) : read[n][1] = KeyText[k]}
     IN  IF at = {} THEN <<"undefined">>
         ELSE read[CHOOSE n \in at : \A m \in at : m <= n][2]]

\* the elements of an array from t[i], the opening brace of an object
RECURSIVE readElements(_, _, _)
readElements(t, i, acc) ==
  LET read == IF t[i + 1] = "}" THEN [value |-> <<>>, next |-> i + 2]
              ELSE readMembers(t, i + 1, <<>>)
      all == Append(acc, object(read.value))
  IN  IF read.next <= Len(t) /\ t[read.next] = ","
      THEN readElements(t, read.next + 1, all)
      ELSE all

\* JSON.parse of the text of a list of products
parse(t) == IF Len(t) < 3 THEN <<>> ELSE readElements(t, 2, <<>>)

\* getItem of a key that was never set
NoItem == <<"null">>

\* Number.prototype.toString
RECURSIVE toString(_)
toString(n) ==
  LET d == CHOOSE c \in Digit : c = <<"0", "1", "2", "3", "4", "5", "6", "7",
                                       "8", "9">>[(n % 10) + 1]
  IN  IF n < 10 THEN <<d>> ELSE Append(toString(n \div 10), d)

\* the names typed or spoken: the second holds a quote
CatalogNames == { <<"r", "i", "c", "e">>, <<"5", "\"", " ", "p", "o", "t">> }

\* handleVoiceProductDetected, handleManualSubmit: the product added at a time
NewProducts(time) ==
  { [id |-> toString(time), name |-> n, price |-> <<"3", "0">>, quantity |-> <<"1">>,
     unit |-> <<"k", "g">>, category |-> <<"O", "t", "h", "e", "r">>, description |-> <<"f", "r", "e", "s", "h">>] :
      n \in CatalogNames }

\* the changes saved from a card: the description holds a backslash and a
\* line break
Updates ==
  { [price |-> <<"4", "5">>, description |-> <<"a", "\\", "b", "\n", "c">>] }

NoLoad == [set |-> FALSE, value |-> <<>>]

\* a changed load effect: it never sets the products
loadEffectNever(savedProducts) == NoLoad

\* the load effect: setProducts(JSON.parse(savedProducts)) when the item is
\* there and not the empty string
loadEffect(savedProducts) ==
  IF savedProducts # NoItem /\ savedProducts # <<>>
  THEN [set |-> TRUE, value |-> parse(savedProducts)]
  ELSE NoLoad

CatalogInit ==
  /\ products = <<>>
  /\ storage = NoItem
  /\ phase = "unmounted"
  /\ pending = NoLoad
  /\ before = <<>>
  /\ fresh = FALSE
  /\ now = 1

InitCatalog == CatalogInit /\ ParserIdle /\ CategoryIdle /\ VoiceIdle /\ AppIdle /\ RestIdle

\* the first render with useState([]), then the load effect and the save
\* effect, which stores the products of this render
Mount ==
  /\ phase = "unmounted"
  /\ products' = <<>>
  /\ pending' = loadEffect(storage)
  /\ storage' = stringify(products')
  /\ phase' = "mounted"
  /\ UNCHANGED <<before, fresh, now>>
  /\ UNCHANGED <<parserVars, categoryVars, voiceVars, appVars, restVars>>

\* the render after the mount effects: the list set by the load effect
\* becomes the products state and the save effect stores it
Settle ==
  /\ phase = "mounted"
  /\ products' = IF pending.set THEN pending.value ELSE products
  /\ storage' = IF pending.set THEN stringify(products') ELSE storage
  /\ pending' = NoLoad
  /\ phase' = "settled"
  /\ UNCHANGED <<before, fresh, now>>
  /\ UNCHANGED <<parserVars, categoryVars, voiceVars, appVars, restVars>>

\* a handler's setProducts, the render and the save effect that follow
setProducts(list) ==
  /\ products' = list
  /\ storage' = stringify(list)
  /\ before' = <<>>
  /\ fresh' = FALSE
  /\ UNCHANGED <<phase, pending, now>>
  /\ UNCHANGED <<parserVars, categoryVars, voiceVars, appVars, restVars>>

handleAddProduct(newProduct) ==
  /\ phase = "settled"
  /\ Len(products) < MaxProducts
  /\ setProducts(<<newProduct>> \o products)

handleUpdateProduct(id, updatedProduct) ==
  /\ phase = "settled"
  /\ setProducts([i \in 1..Len(products) |->
                    IF products[i].id = id
                    THEN [k \in KeySet |->
                            IF k \in DOMAIN updatedProduct
                            THEN updatedProduct[k] ELSE products[i][k]]
                    ELSE products[i]])

handleDeleteProduct(id) ==
  /\ phase = "settled"
  /\ setProducts(SelectSeq(products, LAMBDA product : product.id # id))

\* the clock advances
Tick ==
  /\ now < MaxNow
  /\ now' = now + 1
  /\ UNCHANGED <<products, storage, phase, pending, before, fresh>>
  /\ UNCHANGED <<parserVars, categoryVars, voiceVars, appVars, restVars>>

\* the page is left or loaded again: the state of the component is gone, the
\* storage stays
Unmount ==
  /\ phase \in {"mounted", "settled"}
  /\ before' = products
  /\ fresh' = TRUE
  /\ products' = <<>>
  /\ pending' = NoLoad
  /\ phase' = "unmounted"
  /\ UNCHANGED <<storage, now>>
  /\ UNCHANGED <<parserVars, categoryVars, voiceVars, appVars, restVars>>

ids == {products[i].id : i \in 1..Len(products)}

NextCatalog ==
  \/ Mount
  \/ Settle
  \/ \E newProduct \in NewProducts(now) : handleAddProduct(newProduct)
  \/ \E id \in ids, u \in Updates : handleUpdateProduct(id, u)
  \/ \E id \in ids : handleDeleteProduct(id)
  \/ Tick
  \/ Unmount

SpecCatalog == InitCatalog /\ [][NextCatalog]_vars

\* C19: after an unmount and a fresh mount, once the mount effects have
\* settled and before any handler runs, the products state is the products
\* state at the unmount and the stored item is the text of that same list.
C19_SurvivesReload ==
  (phase = "settled" /\ fresh) =>
    /\ products = before
    /\ storage = stringify(before)
    /\ parse(storage) = before

\* C19 witness: a catalog of two products, one with a quote in its name and
\* one with a changed price and description, has come back after a reload.
C19_Witness ==
  /\ phase = "settled" /\ fresh
  /\ Len(before) = MaxProducts
  /\ products = before
  /\ \E i \in 1..Len(products) : products[i].name \notin { <<"r", "i", "c", "e">> }
  /\ \E i \in 1..Len(products) : products[i].price = <<"4", "5">>

\* the list without its place i
without(list, i) == SubSeq(list, 1, i - 1) \o SubSeq(list, i + 1, Len(list))

\* C21: handleDeleteProduct(id) takes exactly one product out, the one with
\* that id, and leaves the others and their order as they are;
\* handleUpdateProduct(id, changes) changes only one product, the one with
\* that id, and keeps the length and the order of the list.
C21_OnlyThatProduct ==
  [][ /\ \A id \in ids :
           handleDeleteProduct(id) =>
             \E i \in 1..Len(products) :
               products[i].id = id /\ products' = without(products, i)
      /\ \A id \in ids, u \in Updates :
           handleUpdateProduct(id, u) =>
             /\ Len(products') = Len(products)
             /\ \E i \in 1..Len(products) :
                  /\ products[i].id = id
                  /\ \A j \in 1..Len(products) :
                       j # i => products'[j] = products[j] ]_vars

\* C24: the ids of the products in the catalog are pairwise distinct.
C24_DistinctIds ==
  \A i, j \in 1..Len(products) : products[i].id = products[j].id => i = j

-----------------------------------------------------------------------------
(* App (app.js): Firebase, speech recognition and processInput.  A handler  *)
(* of a recognition instance calls the processInput of the render in which  *)
(* the setup effect created the instance, and that processInput reads the   *)
(* db and userId of that render.                                            *)

SpeechLanguages == {"en-US", "hi-IN"}

\* what is typed or heard
Inputs == { <<"A", "d", "d", " ", "1", "k", "g", " ", "t", "o", "m", "a", "t", "o", "e", "s", " ", "f", "o", "r", " ", "RUPEE", "3", "0">>, <<"h", "e", "l", "l", "o", " ", "t", "h", "e", "r", "e">>, <<" ", " ">> }

\* the processInput calls in progress together
MaxCalls == 2

DatabaseNotReady == "Database not ready. Please wait."

PleaseEnter == "Please enter product details or a question."

NoRecognition == [made |-> FALSE, lang |-> "", db |-> FALSE, userId |-> FALSE]

\* the instance made by the setup effect of a render: its handlers hold the
\* processInput, and with it the db and userId, of that render
instanceOf(lang, d, u) == [made |-> TRUE, lang |-> lang, db |-> d, userId |-> u]

NoSession == [state |-> "inactive", instance |-> NoRecognition]

AppEvent(kind, ready, stage) == [event |-> kind, ready |-> ready, stage |-> stage]

AppInit ==
  /\ db = FALSE /\ userId = FALSE /\ isAuthReady = FALSE
  /\ speechLanguage = "en-US"
  /\ recognition = NoRecognition
  /\ session = NoSession
  /\ listening = FALSE /\ loading = FALSE /\ message = ""
  /\ appHandled = AppEvent("render", FALSE, "")
  /\ calls = <<>>

InitApp ==
  AppInit /\ ParserIdle /\ CategoryIdle /\ VoiceIdle /\ CatalogIdle /\ RestIdle

\* the effects of the first render: setDb, and the recognition instance made
\* with the processInput of the first render
mountEffects ==
  /\ appHandled.event = "render"
  /\ db' = TRUE
  /\ recognition' = instanceOf(speechLanguage, db, userId)
  /\ appHandled' = AppEvent("mount", FALSE, "")
  /\ UNCHANGED <<userId, isAuthReady, speechLanguage, session, listening,
                 loading, message>>
  /\ UNCHANGED <<calls, parserVars, categoryVars, voiceVars, catalogVars, restVars>>

onAuthStateChanged ==
  /\ db /\ ~isAuthReady
  /\ userId' = TRUE
  /\ isAuthReady' = TRUE
  /\ appHandled' = AppEvent("auth", TRUE, "")
  /\ UNCHANGED <<db, speechLanguage, recognition, session, listening,
                 loading, message>>
  /\ UNCHANGED <<calls, parserVars, categoryVars, voiceVars, catalogVars, restVars>>

\* the select of the voice input language, and the setup effect that runs
\* again with the render that follows
setSpeechLanguage(lang) ==
  /\ recognition.made
  /\ ~listening /\ ~loading
  /\ lang # speechLanguage
  /\ speechLanguage' = lang
  /\ recognition' = instanceOf(lang, db, userId)
  /\ appHandled' = AppEvent("language", db /\ userId, "")
  /\ UNCHANGED <<db, userId, isAuthReady, session, listening, loading,
                 message>>
  /\ UNCHANGED <<calls, parserVars, categoryVars, voiceVars, catalogVars, restVars>>

\* toggleListening of App: stop() or start() on the instance of the state
appToggleListening ==
  /\ recognition.made
  /\ ~loading
  /\ IF listening
     THEN /\ session' = IF session.instance = recognition
                           /\ session.state \in {"starting", "listening"}
                        THEN [session EXCEPT !.state = "stopping"]
                        ELSE session
     ELSE /\ session.state = "inactive"
          /\ session' = [state |-> "starting", instance |-> recognition]
  /\ appHandled' = AppEvent("toggle", db /\ userId, "")
  /\ UNCHANGED <<db, userId, isAuthReady, speechLanguage, recognition,
                 listening, loading, message>>
  /\ UNCHANGED <<calls, parserVars, categoryVars, voiceVars, catalogVars, restVars>>

onstart ==
  /\ session.state = "starting"
  /\ session' = [session EXCEPT !.state = "listening"]
  /\ listening' = TRUE
  /\ message' = "Listening for your command..."
  /\ appHandled' = AppEvent("start", db /\ userId, "")
  /\ UNCHANGED <<db, userId, isAuthReady, speechLanguage, recognition,
                 loading>>
  /\ UNCHANGED <<calls, parserVars, categoryVars, voiceVars, catalogVars, restVars>>

\* isProductCommand of processInput
isProductCommand(textInput) ==
  \E word \in { <<"a", "d", "d">>, <<"u", "p", "d", "a", "t", "e">>, <<"d", "e", "l", "e", "t", "e">>, <<"p", "r", "o", "d", "u", "c", "t">> } :
    includes(toLowerCase(textInput), word)

\* the first await of a processInput call that goes on: detectLanguage for
\* an input of more than 5 characters, else the extraction or the chat
firstStage(textInput) ==
  IF Len(trim(textInput)) > 5 THEN "detect"
  ELSE IF isProductCommand(textInput) THEN "extract" ELSE "chat"

\* processInput, up to its first await, with the db and userId its render
\* has
processInput(d, u, textInput) ==
  IF ~d \/ ~u
  THEN [stage |-> "rejected", message |-> DatabaseNotReady,
        loading |-> loading, calls |-> calls]
  ELSE IF trim(textInput) = <<>>
  THEN [stage |-> "empty", message |-> PleaseEnter, loading |-> loading,
        calls |-> calls]
  ELSE [stage |-> "parsing", message |-> "", loading |-> TRUE,
        calls |-> Append(calls, [stage |-> firstStage(textInput),
                                 command |-> isProductCommand(textInput)])]

\* onresult of the instance that was started
appOnresult(transcript) ==
  LET out == processInput(session.instance.db, session.instance.userId,
                          transcript)
  IN  /\ session.state \in {"listening", "stopping"}
      /\ Len(out.calls) <= MaxCalls
      /\ session' = [session EXCEPT !.state = "closing"]
      /\ listening' = FALSE
      /\ message' = out.message
      /\ loading' = out.loading
      /\ calls' = out.calls
      /\ appHandled' = AppEvent("result", db /\ userId /\ isAuthReady, out.stage)
      /\ UNCHANGED <<db, userId, isAuthReady, speechLanguage, recognition>>
      /\ UNCHANGED <<parserVars, categoryVars, voiceVars, catalogVars, restVars>>

appOnerror ==
  /\ session.state \in {"starting", "listening", "stopping"}
  /\ session' = [session EXCEPT !.state = "closing"]
  /\ listening' = FALSE
  /\ message' = "Speech recognition error"
  /\ appHandled' = AppEvent("error", db /\ userId, "")
  /\ UNCHANGED <<db, userId, isAuthReady, speechLanguage, recognition,
                 loading>>
  /\ UNCHANGED <<calls, parserVars, categoryVars, voiceVars, catalogVars, restVars>>

appOnend ==
  /\ session.state \in {"listening", "stopping", "closing"}
  /\ session' = NoSession
  /\ listening' = FALSE
  /\ appHandled' = AppEvent("end", db /\ userId, "")
  /\ UNCHANGED <<db, userId, isAuthReady, speechLanguage, recognition,
                 loading, message>>
  /\ UNCHANGED <<calls, parserVars, categoryVars, voiceVars, catalogVars, restVars>>

\* the button: processInput(input) of the current render
typed(textInput) ==
  LET out == processInput(db, userId, textInput)
  IN  /\ appHandled.event # "render"
      /\ ~loading /\ trim(textInput) # <<>>
      /\ Len(out.calls) <= MaxCalls
      /\ message' = out.message
      /\ loading' = out.loading
      /\ calls' = out.calls
      /\ appHandled' = AppEvent("typed", db /\ userId /\ isAuthReady, out.stage)
      /\ UNCHANGED <<db, userId, isAuthReady, speechLanguage, recognition,
                     session, listening>>
      /\ UNCHANGED <<parserVars, categoryVars, voiceVars, catalogVars, restVars>>

\* the stages that can follow when the await of a stage returns: "end" is
\* the return of processInput
following(call) ==
  CASE call.stage = "detect" ->
         {"translate", IF call.command THEN "extract" ELSE "chat"}
    [] call.stage = "translate" ->
         {IF call.command THEN "extract" ELSE "chat"}
    [] call.stage = "extract" -> {"describe", "end"}
    [] call.stage = "describe" -> {"addDoc"}
    [] OTHER -> {"end"}

\* the stages that await callGeminiAPI, which sets loading to true when it
\* is called and to false when it returns
Gemini == {"detect", "translate", "extract", "describe", "chat"}

\* the await of call i returns (callGeminiAPI has set loading to false if
\* it was the one awaited) and processInput runs on to its next await
responded(i, next) ==
  /\ i \in 1..Len(calls)
  /\ next \in following(calls[i]) \ {"end"}
  /\ calls' = [calls EXCEPT ![i].stage = next]
  /\ loading' = (next \in Gemini)
  /\ message' = IF next = "translate" THEN "Translating..." ELSE message
  /\ appHandled' = AppEvent("responded", db /\ userId, next)
  /\ UNCHANGED <<db, userId, isAuthReady, speechLanguage, recognition,
                 session, listening>>
  /\ UNCHANGED <<parserVars, categoryVars, voiceVars, catalogVars, restVars>>

\* the last await of call i returns and processInput comes to its end: its
\* finally sets loading to false
processed(i) ==
  /\ i \in 1..Len(calls)
  /\ "end" \in following(calls[i])
  /\ calls' = SubSeq(calls, 1, i - 1) \o SubSeq(calls, i + 1, Len(calls))
  /\ loading' = FALSE
  /\ message' = "Processed"
  /\ appHandled' = AppEvent("processed", db /\ userId, "end")
  /\ UNCHANGED <<db, userId, isAuthReady, speechLanguage, recognition,
                 session, listening>>
  /\ UNCHANGED <<parserVars, categoryVars, voiceVars, catalogVars, restVars>>

NextApp ==
  \/ mountEffects
  \/ onAuthStateChanged
  \/ \E lang \in SpeechLanguages : setSpeechLanguage(lang)
  \/ appToggleListening
  \/ onstart
  \/ \E t \in Inputs : appOnresult(t)
  \/ appOnerror
  \/ appOnend
  \/ \E t \in Inputs : typed(t)
  \/ \E i \in 1..MaxCalls, next \in Gemini \cup {"addDoc"} : responded(i, next)
  \/ \E i \in 1..MaxCalls : processed(i)

SpecApp == InitApp /\ [][NextApp]_vars

\* C20: a speech transcript that arrives when the database and the user id
\* are ready is handled by processInput with them: it is not rejected with
\* 'Database not ready', as typed text is not.
C20_SpeechUsesReadyDatabase ==
  (appHandled.event \in {"result", "typed"} /\ appHandled.ready) =>
    /\ appHandled.stage # "rejected"
    /\ message # DatabaseNotReady

\* C26: from the moment processInput sets loading to true until that call
\* finishes, loading stays true: while a processInput call is in progress,
\* loading is true.
C26_LoadingGuardsCall == calls # <<>> => loading

-----------------------------------------------------------------------------
(* The chat of the App of src/unnamed/part_002: getAiResponse *)

\* the getAiResponse calls in progress together
MaxChat == 2

Commands ==
  { <<"h", "e", "l", "l", "o">>, <<"a", "d", "d", " ", "p", "r", "o", "d", "u", "c", "t", " ", "r", "i", "c", "e">>, <<"g", "e", "n", "e", "r", "a", "t", "e", " ", "c", "a", "m", "p", "a", "i", "g", "n">>, <<"t", "h", "a", "n", "k", " ", "y", "o", "u">>,
    <<"w", "h", "a", "t">> }

\* setTimeout(handler, timeout): the timer.  A handler that is not a function
\* is turned into a string and compiled as a script when the timer fires; the
\* timeout is turned into a number.
setTimeout(handler, timeout) == [handler |-> handler, timeout |-> timeout]

NoTimer == [handler |-> "", timeout |-> ""]

\* new Promise(resolve => setTimeout(Math.random() * 1500 + 500, resolve)):
\* the first argument is the number, the second is resolve
simulatedDelay == setTimeout("number", "resolve")

\* the timer calls resolve when it fires
resolves(timer) == timer.handler = "resolve"

responseText(command) ==
  LET lowerCommand == toLowerCase(command)
  IN  IF includes(lowerCommand, <<"h", "e", "l", "l", "o">>) \/ includes(lowerCommand, <<"h", "i">>)
      THEN "Hello there! How can I assist you with your products today?"
      ELSE IF includes(lowerCommand, <<"a", "d", "d", " ", "p", "r", "o", "d", "u", "c", "t">>)
      THEN "To add a product, please use the form."
      ELSE IF includes(lowerCommand, <<"l", "i", "s", "t", " ", "p", "r", "o", "d", "u", "c", "t", "s">>)
              \/ includes(lowerCommand, <<"s", "h", "o", "w", " ", "p", "r", "o", "d", "u", "c", "t", "s">>)
      THEN "You currently have no products. Try adding one!"
      ELSE IF includes(lowerCommand, <<"g", "e", "n", "e", "r", "a", "t", "e", " ", "c", "a", "m", "p", "a", "i", "g", "n">>)
      THEN "Generating a marketing campaign idea for your products..."
      ELSE IF includes(lowerCommand, <<"t", "h", "a", "n", "k", " ", "y", "o", "u">>)
      THEN "You're welcome! Is there anything else I can help with?"
      ELSE "I'm sorry, I don't understand that command."

campaignSuggestion(command) ==
  LET lowerCommand == toLowerCase(command)
  IN  IF ~(includes(lowerCommand, <<"h", "e", "l", "l", "o">>) \/ includes(lowerCommand, <<"h", "i">>))
         /\ ~includes(lowerCommand, <<"a", "d", "d", " ", "p", "r", "o", "d", "u", "c", "t">>)
         /\ ~includes(lowerCommand, <<"l", "i", "s", "t", " ", "p", "r", "o", "d", "u", "c", "t", "s">>)
         /\ ~includes(lowerCommand, <<"s", "h", "o", "w", " ", "p", "r", "o", "d", "u", "c", "t", "s">>)
         /\ includes(lowerCommand, <<"g", "e", "n", "e", "r", "a", "t", "e", " ", "c", "a", "m", "p", "a", "i", "g", "n">>)
      THEN "Seasonal Sale Extravaganza!" ELSE ""

ChatInit ==
  /\ chatInput = <<>>
  /\ chatLoading = FALSE
  /\ chatMessage = ""
  /\ chatHistory = <<>>
  /\ campaignOutput = ""
  /\ chatCalls = <<>>

InitChat ==
  /\ ChatInit /\ BackendIdle /\ ServerIdle
  /\ ParserIdle /\ CategoryIdle /\ VoiceIdle /\ CatalogIdle /\ AppIdle

chatRest ==
  <<parserVars, categoryVars, voiceVars, catalogVars, appVars, backendVars,
    serverVars>>

\* the input field
setInput(value) ==
  /\ chatInput' = value
  /\ UNCHANGED <<chatLoading, chatMessage, chatHistory, campaignOutput,
                 chatCalls>>
  /\ UNCHANGED chatRest

\* getAiResponse up to its await
getAiResponse(command) ==
  /\ Len(chatCalls) < MaxChat
  /\ chatLoading' = TRUE
  /\ chatMessage' = "Thinking..."
  /\ chatCalls' = Append(chatCalls, [command |-> command,
                                     timer |-> simulatedDelay])
  /\ UNCHANGED <<chatHistory, campaignOutput>>
  /\ UNCHANGED chatRest

\* the button Ask AI (Text)
askAi ==
  /\ ~chatLoading /\ trim(chatInput) # <<>>
  /\ getAiResponse(chatInput)
  /\ UNCHANGED chatInput

\* onresult of the recognition: setInput and handleVoiceCommand
handleVoiceCommand(transcript) ==
  /\ chatInput' = transcript
  /\ getAiResponse(transcript)

\* the timer of call i fires.  When it calls resolve, getAiResponse runs on
\* from its await to its end; when it does not, nothing runs.
timerFires(i) ==
  /\ i \in 1..Len(chatCalls)
  /\ chatCalls[i].timer # NoTimer
  /\ IF resolves(chatCalls[i].timer)
     THEN /\ chatCalls' = SubSeq(chatCalls, 1, i - 1)
                            \o SubSeq(chatCalls, i + 1, Len(chatCalls))
          /\ chatHistory' =
               chatHistory
                 \o << [role |-> "user", text |-> <<chatCalls[i].command>>],
                       [role |-> "ai",
                        text |-> <<responseText(chatCalls[i].command)>>] >>
          /\ campaignOutput' = campaignSuggestion(chatCalls[i].command)
          /\ chatMessage' = "AI response received."
          /\ chatLoading' = FALSE
     ELSE /\ chatCalls' = [chatCalls EXCEPT ![i].timer = NoTimer]
          /\ UNCHANGED <<chatHistory, campaignOutput, chatMessage,
                         chatLoading>>
  /\ UNCHANGED chatInput
  /\ UNCHANGED chatRest

NextChat ==
  \/ \E value \in Commands \cup { <<>> } : setInput(value)
  \/ askAi
  \/ \E transcript \in Commands : handleVoiceCommand(transcript)
  \/ \E i \in 1..MaxChat : timerFires(i)

SpecChat == InitChat /\ [][NextChat]_vars

\* C27: a getAiResponse call completes when its simulated delay is over: no
\* call is still in progress, with loading true, after its timer has fired.
C27_CallCompletes ==
  \A i \in 1..Len(chatCalls) : chatCalls[i].timer # NoTimer

-----------------------------------------------------------------------------
(* The Node backend: the product and image controllers.  Every client has  *)
(* at most one request that has not been answered, and two clients are     *)
(* signed in as the same user; a handler runs from one await to the next   *)
(* in one step, and an await of Firestore or Cloudinary returns or throws. *)

Users == {"u1", "u2"}

Clients == {"c1", "c2", "c3"}

\* req.user.uid of the requests of a client
uidOf(client) == IF client = "c3" THEN "u2" ELSE "u1"

\* the documents the products collection can hold
MaxDocs == 1

\* the temporary files the disk can hold
MaxFiles == 1

ProductIds == 1..MaxDocs

Paths == 1..MaxFiles

\* a document id that was never used, a deleted document, and a product
Fresh == [exists |-> FALSE, used |-> FALSE, createdBy |-> "", name |-> <<>>]

Deleted == [exists |-> FALSE, used |-> TRUE, createdBy |-> "", name |-> <<>>]

Product(uid, name) ==
  [exists |-> TRUE, used |-> TRUE, createdBy |-> uid, name |-> name]

\* a value of a request body with its typeof
Undefined == [type |-> "undefined", value |-> <<>>]

String(s) == [type |-> "string", value |-> s]

\* the number 45
FortyFive == [type |-> "number", value |-> <<"4", "5">>]

\* the bodies sent: name, category and price
AddBodies ==
  { [name |-> String(n), category |-> String(<<"G", "r", "a", "i", "n", "s">>), price |-> p] :
      n \in { <<"r", "i", "c", "e">>, <<"d", "a", "l">> }, p \in {FortyFive} }
    \cup { [name |-> String(<<"r", "i", "c", "e">>), category |-> String(<<"G", "r", "a", "i", "n", "s">>),
            price |-> String(<<"4", "5">>)],
           [name |-> String(<<"r", "i", "c", "e">>), category |-> Undefined,
            price |-> FortyFive] }

UpdateBodies ==
  { [name |-> String(<<"d", "a", "l">>), price |-> Undefined],
    [name |-> Undefined, price |-> String(<<"4", "5">>)] }

\* the update and delete requests sent
Calls ==
  { [kind |-> "update", body |-> b] : b \in UpdateBodies }
    \cup { [kind |-> "delete", body |-> <<>>] }

\* !x of a body value
missing(v) == v.type = "undefined" \/ v.value = <<>>

Idle == [kind |-> "idle", id |-> 0, stage |-> "", data |-> <<>>]

Request(kind, id, stage, data) ==
  [kind |-> kind, id |-> id, stage |-> stage, data |-> data]

Acted(uid, step, id, ok, status) ==
  [uid |-> uid, step |-> step, id |-> id, ok |-> ok, status |-> status]

BackendInit ==
  /\ store = [id \in ProductIds |-> Fresh]
  /\ files = {}
  /\ requests = [c \in Clients |-> Idle]
  /\ acted = Acted("", "listen", 0, TRUE, 0)

InitBackend ==
  /\ BackendInit /\ ChatIdle /\ ServerIdle
  /\ ParserIdle /\ CategoryIdle /\ VoiceIdle /\ CatalogIdle /\ AppIdle

backendRest ==
  <<parserVars, categoryVars, voiceVars, catalogVars, appVars, chatVars,
    serverVars>>

\* db.collection('products').doc(): an id that was never used
newId == CHOOSE id \in ProductIds :
           /\ ~store[id].used
           /\ \A other \in ProductIds : ~store[other].used => id <= other

\* addProduct
addProduct(client, body, ok) ==
  /\ requests[client] = Idle
  /\ \E id \in ProductIds : ~store[id].used
  /\ IF missing(body.name) \/ missing(body.category) \/ missing(body.price)
        \/ body.price.type # "number"
     THEN /\ acted' = Acted(uidOf(client), "add", 0, TRUE, 400)
          /\ UNCHANGED store
     ELSE IF ok
     THEN /\ store' = [store EXCEPT ![newId] = Product(uidOf(client), body.name.value)]
          /\ acted' = Acted(uidOf(client), "add", newId, TRUE, 201)
     ELSE /\ acted' = Acted(uidOf(client), "add", 0, FALSE, 500)
          /\ UNCHANGED store
  /\ UNCHANGED <<files, requests>>
  /\ UNCHANGED backendRest

\* updateProduct and deleteProduct up to await productRef.get()
arrives(client, kind, id, body) ==
  /\ requests[client] = Idle
  /\ requests' = [requests EXCEPT ![client] = Request(kind, id, "get", body)]
  /\ acted' = Acted(uidOf(client), "arrive", id, TRUE, 0)
  /\ UNCHANGED <<store, files>>
  /\ UNCHANGED backendRest

\* a changed check: the creator is not looked at
allowedIfExists(product, uid) == product.exists

\* the check of updateProduct and deleteProduct on the document read
allowed(product, uid) == product.exists /\ product.createdBy = uid

\* updateData of updateProduct: the name and the price; an undefined price
\* stands for the stored price, a number
updateData(body, product) ==
  [name |-> IF missing(body.name) THEN product.name ELSE body.name.value,
   price |-> body.price]

\* await productRef.get() returns or throws: the check, and for an update
\* the updateData and the check of its price
read(client, ok) ==
  LET r == requests[client]
      product == store[r.id]
  IN  /\ r.kind \in {"update", "delete"} /\ r.stage = "get"
      /\ IF ~ok
         THEN /\ requests' = [requests EXCEPT ![client] = Idle]
              /\ acted' = Acted(uidOf(client), "read", r.id, FALSE, 500)
         ELSE IF ~allowed(product, uidOf(client))
         THEN /\ requests' = [requests EXCEPT ![client] = Idle]
              /\ acted' = Acted(uidOf(client), "read", r.id, TRUE, 404)
         ELSE IF r.kind = "update"
                 /\ updateData(r.data, product).price.type
                      \notin {"undefined", "number"}
         THEN /\ requests' = [requests EXCEPT ![client] = Idle]
              /\ acted' = Acted(uidOf(client), "read", r.id, TRUE, 400)
         ELSE /\ requests' =
                   [requests EXCEPT
                      ![client] = Request(r.kind, r.id, "write",
                                       IF r.kind = "update"
                                       THEN updateData(r.data, product)
                                       ELSE <<>>)]
              /\ acted' = Acted(uidOf(client), "read", r.id, TRUE, 0)
      /\ UNCHANGED <<store, files>>
      /\ UNCHANGED backendRest

\* await productRef.update(updateData) or productRef.delete() returns or
\* throws: update throws when the document is not there, delete does not
written(client, ok) ==
  LET r == requests[client]
  IN  /\ r.kind \in {"update", "delete"} /\ r.stage = "write"
      /\ requests' = [requests EXCEPT ![client] = Idle]
      /\ IF ~ok \/ (r.kind = "update" /\ ~store[r.id].exists)
         THEN /\ acted' = Acted(uidOf(client), "write", r.id, FALSE, 500)
              /\ UNCHANGED store
         ELSE /\ store' =
                   [store EXCEPT
                      ![r.id] = IF r.kind = "update"
                                THEN [@ EXCEPT !.name = r.data.name]
                                ELSE IF @.used THEN Deleted ELSE @]
              /\ acted' = Acted(uidOf(client), "write", r.id, TRUE, 200)
      /\ UNCHANGED files
      /\ UNCHANGED backendRest

\* uploadImage up to await cloudinary.uploader.upload: the request comes
\* without a file, or with the temporary file multer has written
uploadImage(client, withFile) ==
  /\ requests[client] = Idle
  /\ IF ~withFile
     THEN /\ acted' = Acted(uidOf(client), "upload", 0, TRUE, 400)
          /\ UNCHANGED <<files, requests>>
     ELSE /\ Paths \ files # {}
          /\ LET path == CHOOSE p \in Paths \ files :
                            \A q \in Paths \ files : p <= q
             IN  /\ files' = files \cup {path}
                 /\ requests' =
                      [requests EXCEPT
                         ![client] = Request("upload", path, "upload", <<>>)]
                 /\ acted' = Acted(uidOf(client), "upload", path, TRUE, 0)
  /\ UNCHANGED store
  /\ UNCHANGED backendRest

\* await cloudinary.uploader.upload returns or throws
uploaded(client, ok) ==
  LET r == requests[client]
  IN  /\ r.kind = "upload"
      /\ requests' = [requests EXCEPT ![client] = Idle]
      /\ IF ok
         THEN /\ files' = files \ {r.id}
              /\ acted' = Acted(uidOf(client), "uploaded", r.id, TRUE, 200)
         ELSE /\ acted' = Acted(uidOf(client), "uploaded", r.id, FALSE, 500)
              /\ UNCHANGED files
      /\ UNCHANGED store
      /\ UNCHANGED backendRest

NextBackend ==
  \/ \E client \in Clients, body \in AddBodies, ok \in BOOLEAN :
       addProduct(client, body, ok)
  \/ \E client \in Clients, id \in ProductIds, call \in Calls :
       arrives(client, call.kind, id, call.body)
  \/ \E client \in Clients, ok \in BOOLEAN : read(client, ok)
  \/ \E client \in Clients, ok \in BOOLEAN : written(client, ok)
  \/ \E client \in Clients, withFile \in BOOLEAN :
       uploadImage(client, withFile)
  \/ \E client \in Clients, ok \in BOOLEAN : uploaded(client, ok)

SpecBackend == InitBackend /\ [][NextBackend]_vars

\* the product the request of a client names is not there or was created
\* by another user
notOwn(client) ==
  ~store[requests[client].id].exists
    \/ store[requests[client].id].createdBy # uidOf(client)

\* the update or delete request of a client is answered in this step
answered(client) ==
  /\ requests[client].kind \in {"update", "delete"}
  /\ requests'[client] = Idle

\* a product is changed or deleted only by a request of its creator that
\* names it, and an update leaves createdBy as it is
OnlyByCreator ==
  \A id \in ProductIds :
    (store[id].exists /\ store'[id] # store[id]) =>
      /\ acted'.uid = store[id].createdBy
      /\ acted'.id = id
      /\ store'[id].exists => store'[id].createdBy = store[id].createdBy

\* C28, as stated: an update or delete request for a product that is not
\* there or was created by another user gets status 404 and leaves the store
\* unchanged; products change only through their creator's requests and
\* createdBy never changes.
C28_ForeignGets404 ==
  [][ /\ OnlyByCreator
      /\ \A client \in Clients :
           (answered(client) /\ notOwn(client))
             => (acted'.status = 404 /\ store' = store) ]_vars

\* C28, amended: products change only through their creator's requests and
\* createdBy never changes; an update or delete request for a product that
\* is not there or was created by another user leaves the store unchanged,
\* and it gets status 404 when its read returns, 500 when its read or write
\* throws, and 200 when the product was deleted between its read and its
\* delete.
C28_ForeignUnchanged ==
  [][ /\ OnlyByCreator
      /\ \A client \in Clients :
           (answered(client) /\ notOwn(client))
             => /\ store' = store
                /\ acted'.status =
                     IF ~acted'.ok THEN 500
                     ELSE IF acted'.step = "read" THEN 404
                     ELSE 200
                /\ acted'.status = 200 =>
                     requests[client].kind = "delete" ]_vars

\* C28 witness: the read of a request for a product of another user has
\* been answered with 404 while a request of the creator for the same
\* product waits for its write.
C28_Witness ==
  /\ acted.step = "read" /\ acted.ok /\ acted.status = 404
  /\ store[acted.id].exists
  /\ store[acted.id].createdBy # acted.uid
  /\ \E client \in Clients :
       requests[client].stage = "write" /\ requests[client].id = acted.id

\* C29: after an upload request that carried a file has been answered, its
\* temporary file no longer exists.
C29_TempFileRemoved ==
  acted.step = "uploaded" => acted.id \notin files

-----------------------------------------------------------------------------
(* The production server: the /api route starts the Python backend and     *)
(* redirects, every other route sends the page.  The backend process can   *)
(* exit by itself at any time; nothing listens to its exit.                *)

\* the requests the server answers
MaxServed == 4

Urls == { <<"/", "p", "r", "o", "d", "u", "c", "t", "s">>, <<"/", "h", "e", "a", "l", "t", "h">> }

ServerInit ==
  /\ pythonBackend = 0
  /\ alive = {}
  /\ running = TRUE
  /\ served = <<>>

InitServer ==
  /\ ServerInit /\ ChatIdle /\ BackendIdle
  /\ ParserIdle /\ CategoryIdle /\ VoiceIdle /\ CatalogIdle /\ AppIdle

serverRest ==
  <<parserVars, categoryVars, voiceVars, catalogVars, appVars, chatVars,
    backendVars>>

\* spawn('python', ['start_backend_with_api.py'], ...): a new process
spawn == Len(served) + 1

\* app.use('/api', ...)
api(url) ==
  /\ running
  /\ Len(served) < MaxServed
  /\ IF pythonBackend = 0
     THEN /\ pythonBackend' = spawn
          /\ alive' = alive \cup {spawn}
     ELSE UNCHANGED <<pythonBackend, alive>>
  /\ served' = Append(served, [route |-> "/api",
                               redirect |-> <<"h", "t", "t", "p", ":", "/", "/", "l", "o", "c", "a", "l", "h", "o", "s", "t", ":", "5", "0", "0", "1">> \o url])
  /\ UNCHANGED running
  /\ UNCHANGED serverRest

\* app.get('*', ...)
page ==
  /\ running
  /\ Len(served) < MaxServed
  /\ served' = Append(served, [route |-> "*", redirect |-> <<>>])
  /\ UNCHANGED <<pythonBackend, alive, running>>
  /\ UNCHANGED serverRest

\* the backend process exits
exits(process) ==
  /\ process \in alive
  /\ alive' = alive \ {process}
  /\ UNCHANGED <<pythonBackend, running, served>>
  /\ UNCHANGED serverRest

\* process.on('SIGTERM', ...)
SIGTERM ==
  /\ running
  /\ alive' = IF pythonBackend # 0 THEN alive \ {pythonBackend} ELSE alive
  /\ running' = FALSE
  /\ UNCHANGED <<pythonBackend, served>>
  /\ UNCHANGED serverRest

NextServer ==
  \/ \E url \in Urls : api(url)
  \/ page
  \/ \E process \in 1..MaxServed : exits(process)
  \/ SIGTERM

SpecServer == InitServer /\ [][NextServer]_vars

\* C30: when a request under /api is answered while no backend process is
\* alive, a backend process is alive after it; and never are two backend
\* processes alive together.
C30_BackendStarted ==
  [][ /\ ( /\ Len(served') > Len(served)
           /\ served'[Len(served')].route = "/api"
           /\ alive = {} )
         => alive' # {}
      /\ Cardinality(alive') <= 1 ]_vars
====
